---- MODULE Spec2Model ----
(***************************************************************************)
(* A model of dm_robotics' agentflow reward combination strategies and     *)
(* reward preprocessors (py/agentflow/preprocessors/rewards.py) and of its *)
(* action spaces (py/agentflow/action_spaces.py).                          *)
(*                                                                         *)
(* Rewards are fixed-point numbers: the integer r stands for r / One, so   *)
(* One is the reward 1.0.  A value returned by a staged strategy is the    *)
(* exact fraction num / (One * den).                                       *)
(***************************************************************************)
EXTENDS Integers, Sequences, FiniteSets, TLC

VARIABLES
  sys,                   \* which component the behaviour exercises
  pc,                    \* the last operation performed on it
  ret,                   \* what that operation returned
  rewards, thresh, cumulative,   \* a staged strategy and its argument
  reward_preprocessors,  \* CombineRewards._reward_preprocessors
  flatten_rewards,       \* CombineRewards._flatten_rewards
  output_type,           \* CombineRewards._output_type
  dtype_truthy,          \* whether bool(np.dtype) is True in this numpy build
  timestep,              \* the record the preprocessor was given
  given,                 \* the record each child was given, in child order
  returned,              \* the record each child returned, in child order
  actionSpace,           \* an action space, as constructed
  projectArg,            \* the argument of its last project call
  base, minimum, maximum, \* the arguments of constrained_action_spec
  preprocessor,          \* a ThresholdReward or an L2Reward, its fields
  configured,            \* that preprocessor as it was constructed
  setups,                \* the number of setup calls made on it
  last_input_spec,       \* the input spec of the most recent setup
  last_output_spec,      \* what the most recent setup returned
  slicedSpec,            \* the spec prefix_slicer is called with
  slicerPrefix,          \* its prefix argument
  slicerDefault          \* its default_value argument

stagedVars == <<rewards, thresh, cumulative>>
combineVars == <<reward_preprocessors, flatten_rewards, output_type,
                 dtype_truthy, timestep, given, returned>>
actionVars == <<actionSpace, projectArg>>
constrainVars == <<base, minimum, maximum>>
preVars == <<preprocessor, configured, setups, last_input_spec, last_output_spec>>
slicerVars == <<slicedSpec, slicerPrefix, slicerDefault>>
vars == <<sys, pc, ret, stagedVars, combineVars, actionVars, constrainVars, preVars,
          slicerVars>>

(***************************************************************************)
(* Bounds of the model.                                                    *)
(***************************************************************************)
MaxLen == 3
MaxChildren == 2
MaxMask == 2
MaxAction == 2
MaxStages == 2
MaxDim == 2
MaxSetups == 2
MaxName == 3

\* The fixed-point image of 1.0, the upper clipping limit of np.clip(.., 0, 1).
One == 100

\* Reward values fed to the strategies (hundredths), some outside [0, 1].
RewardVals == {-50, 0, 60, 92, 95, 150}

\* Thresholds the strategies are constructed with (hundredths).
ThreshVals == {0, 10, 90, 100, 120}

RECURSIVE SeqsUpTo(_, _)
SeqsUpTo(S, n) ==
  IF n = 0 THEN {<<>>}
  ELSE LET shorter == SeqsUpTo(S, n - 1)
       IN  shorter \cup {Append(s, x) : s \in {t \in shorter : Len(t) = n - 1}, x \in S}

RewardSeqs == SeqsUpTo(RewardVals, MaxLen)

(***************************************************************************)
(* Results of a call: a returned fraction, or an exception.                *)
(***************************************************************************)
NoRet == [kind |-> "none", num |-> 0, den |-> 1]
Raised == [kind |-> "raise", num |-> 0, den |-> 1]
Value(num, den) == [kind |-> "value", num |-> num, den |-> den]

(***************************************************************************)
(* np.clip(rewards, 0, 1), elementwise.                                    *)
(***************************************************************************)
\* Mutant: no clipping.
Unclipped(r) == r

Clip(r) == IF r < 0 THEN 0 ELSE IF r > One THEN One ELSE r

ClipSeq(rs) == [k \in DOMAIN rs |-> Clip(rs[k])]

\* reversed(rewards)
Reversed(rs) == [k \in DOMAIN rs |-> rs[Len(rs) + 1 - k]]

\* Mutant: an exhausted loop yields the final entry of the sequence (the
\* first element visited) instead of the last element visited.
RECURSIVE ActiveLoopFinalEntry(_, _, _, _)
ActiveLoopFinalEntry(rev, th, i, last_reward) ==
  LET num_stages == Len(rev)
  IN  IF i >= num_stages
      THEN Value(rev[1], num_stages)
      ELSE LET cur == rev[i + 1]
           IN  IF cur >= th
               THEN Value((num_stages - (i + 1)) * One + cur, num_stages)
               ELSE ActiveLoopFinalEntry(rev, th, i + 1, cur)

(***************************************************************************)
(* StagedWithActiveThreshold.__call__: the loop over enumerate(reversed).  *)
(* i is the 0-based loop index, last_reward the loop variable, which keeps *)
(* the value of the last element visited once the loop is exhausted.       *)
(***************************************************************************)
RECURSIVE ActiveLoop(_, _, _, _)
ActiveLoop(rev, th, i, last_reward) ==
  LET num_stages == Len(rev)
  IN  IF i >= num_stages
      THEN Value(last_reward, num_stages)
      ELSE LET cur == rev[i + 1]
           IN  IF cur >= th
               THEN Value((num_stages - (i + 1)) * One + cur, num_stages)
               ELSE ActiveLoop(rev, th, i + 1, cur)

\* Mutant: the scan runs over the sequence in its own order, not reversed.
ActiveForward(rs, th) ==
  IF Len(rs) = 0 THEN Raised ELSE ActiveLoop(ClipSeq(rs), th, 0, 0)

\* An empty sequence ends in 0. / 0: ZeroDivisionError.
StagedWithActiveThreshold(rs, th) ==
  IF Len(rs) = 0 THEN Raised ELSE ActiveLoop(Reversed(ClipSeq(rs)), th, 0, 0)

(***************************************************************************)
(* StagedWithSuccessThreshold.__call__.                                    *)
(***************************************************************************)
\* tasks_above_threshold, as the set of 0-based indices that are True.
TasksAboveThreshold(clipped, th) ==
  {k \in 0 .. Len(clipped) - 1 : clipped[k + 1] > th}

SetMax(S) == CHOOSE m \in S : \A x \in S : x <= m
SetMin(S) == CHOOSE m \in S : \A x \in S : m <= x

\* np.argmin of a boolean array: the first False, and 0 when all are True.
ArgMin(above, n) ==
  LET falses == (0 .. n - 1) \ above
  IN  IF falses = {} THEN 0 ELSE SetMin(falses)

\* Mutant: the cumulative count is the number of tasks above threshold.
NumTasksSolvedCount(above, n, cum) ==
  IF cum THEN Cardinality(above) ELSE ArgMin(above, n)

NumTasksSolved(above, n, cum) ==
  IF cum
  THEN IF above # {} THEN SetMax(above) + 1 ELSE 0
  ELSE ArgMin(above, n)

Min2(a, b) == IF a <= b THEN a ELSE b
Max2(a, b) == IF a >= b THEN a ELSE b

\* num_tasks_solved after `min(num_tasks_solved, num_stages - 1)`: the index
\* the current task's reward is read at.
SuccessIndex(rs, th, cum) ==
  LET clipped == ClipSeq(rs)
      num_stages == Len(clipped)
      above == TasksAboveThreshold(clipped, th)
  IN  Min2(NumTasksSolved(above, num_stages, cum), num_stages - 1)

\* An empty sequence ends in an IndexError (or argmin's ValueError).
StagedWithSuccessThreshold(rs, th, cum) ==
  IF Len(rs) = 0 THEN Raised
  ELSE LET clipped == ClipSeq(rs)
           num_stages == Len(clipped)
           num_tasks_solved == SuccessIndex(rs, th, cum)
           current_task_reward == clipped[num_tasks_solved + 1]
       IN  Value(num_tasks_solved * One + current_task_reward, num_stages)

(***************************************************************************)
(* Reward values of a timestep.  A reward is a scalar or a 1-d array of a  *)
(* dtype; vals holds its elements in hundredths (a scalar has one).        *)
(***************************************************************************)
DTypes == {"float", "int"}

\* dtype.type(v) and ndarray.astype(dtype): to an integer type the value is
\* truncated towards zero, to a floating type it is kept.
CastVal(v, dtype) ==
  IF dtype = "int"
  THEN IF v >= 0 THEN (v \div One) * One ELSE 0 - (((0 - v) \div One) * One)
  ELSE v

Scalar(v, dtype) == [arr |-> FALSE, dtype |-> dtype, vals |-> <<v>>]
Array(vs, dtype) == [arr |-> TRUE, dtype |-> dtype, vals |-> vs]

\* np.isscalar(reward)
IsScalar(r) == ~r.arr

\* _cast_reward_to_type
CastRewardToType(r, dtype) ==
  [arr |-> r.arr, dtype |-> dtype,
   vals |-> [k \in DOMAIN r.vals |-> CastVal(r.vals[k], dtype)]]

TimeStep(reward, obs) == [reward |-> reward, observation |-> obs]

RaisedTs == [kind |-> "raise", ts |-> TimeStep(Scalar(0, "float"), 0)]
ReturnedTs(ts) == [kind |-> "value", ts |-> ts]

(***************************************************************************)
(* The child preprocessors: ThresholdReward and ComputeReward.             *)
(***************************************************************************)
\* ThresholdReward.__init__: hi and lo are Python floats.
ThresholdReward(threshold, hi, lo) ==
  [kind |-> "threshold", threshold |-> threshold,
   hi |-> Scalar(hi, "float"), lo |-> Scalar(lo, "float"),
   fn |-> "none", out_dtype |-> "none"]

\* ComputeReward.__init__: no output spec before setup.
ComputeReward(fn) ==
  [kind |-> "compute", threshold |-> 0,
   hi |-> Scalar(0, "float"), lo |-> Scalar(0, "float"),
   fn |-> fn, out_dtype |-> "none"]

\* The reward functions given to ComputeReward: the observation itself, or
\* the array [observation, 1 - observation].
RewardFunction(fn, obs) ==
  IF fn = "obs" THEN Scalar(obs, "float") ELSE Array(<<obs, One - obs>>, "float")

\* ThresholdReward._process_impl; comparing an array of several elements in
\* an `if` raises ValueError.
ThresholdProcessImpl(child, ts) ==
  IF Len(ts.reward.vals) # 1 THEN RaisedTs
  ELSE ReturnedTs([ts EXCEPT !.reward =
         IF ts.reward.vals[1] >= child.threshold THEN child.hi ELSE child.lo])

\* ComputeReward._process_impl; without setup there is no output spec to
\* read the dtype from.
ComputeProcessImpl(child, ts) ==
  IF child.out_dtype = "none" THEN RaisedTs
  ELSE ReturnedTs([ts EXCEPT !.reward =
         CastRewardToType(RewardFunction(child.fn, ts.observation), child.out_dtype)])

\* reward_preprocessor.process(timestep)
ChildProcess(child, ts) ==
  IF child.kind = "threshold" THEN ThresholdProcessImpl(child, ts)
  ELSE ComputeProcessImpl(child, ts)

\* ThresholdReward._output_spec and ComputeReward._output_spec, reached
\* through setup_io_spec: both keep the reward dtype of the input spec.
ChildSetup(child, dtype) ==
  IF child.kind = "threshold"
  THEN [child EXCEPT !.hi = CastRewardToType(child.hi, dtype),
                     !.lo = CastRewardToType(child.lo, dtype)]
  ELSE [child EXCEPT !.out_dtype = dtype]

(***************************************************************************)
(* CombineRewards._process_impl.                                           *)
(***************************************************************************)
\* Mutant: every child is given the record CombineRewards received.
RECURSIVE GivenCopies(_, _, _)
GivenCopies(children, ts, k) ==
  IF k > Len(children) THEN <<>>
  ELSE <<ts>> \o GivenCopies(children, ts, k + 1)

\* The record each child is given: `timestep = child.process(timestep)`
\* rebinds timestep, so a child is given what the child before it returned.
\* The list ends at the first child that raises.
RECURSIVE GivenRecords(_, _, _)
GivenRecords(children, ts, k) ==
  IF k > Len(children) THEN <<>>
  ELSE LET r == ChildProcess(children[k], ts)
       IN  IF r.kind = "raise" THEN <<ts>>
           ELSE <<ts>> \o GivenRecords(children, r.ts, k + 1)

\* What each child returned for the record it was given.
ReturnedRecords(children, gs) ==
  [k \in DOMAIN gs |-> ChildProcess(children[k], gs[k])]

\* rewards.extend(timestep.reward) / rewards.append(timestep.reward): the
\* collected list, each entry a scalar or (not flattened) an array.
RECURSIVE Collect(_, _)
Collect(rs, flatten) ==
  IF rs = <<>> THEN <<>>
  ELSE LET r == Head(rs).ts.reward
       IN  (IF ~IsScalar(r) /\ flatten
            THEN [k \in DOMAIN r.vals |-> Scalar(r.vals[k], r.dtype)]
            ELSE <<r>>) \o Collect(Tail(rs), flatten)

AllVals(collected) ==
  UNION {{collected[k].vals[j] : j \in DOMAIN collected[k].vals} : k \in DOMAIN collected}

\* The collected entries all have one shape (all scalars, or arrays of one
\* length); otherwise the list is ragged.
Homogeneous(collected) ==
  \A j, k \in DOMAIN collected :
    /\ collected[j].arr = collected[k].arr
    /\ Len(collected[j].vals) = Len(collected[k].vals)

NoReward == [ok |-> FALSE, v |-> 0]
Reward(v) == [ok |-> TRUE, v |-> v]

\* Mutant: the minimum of the collected rewards.
NpMin(collected) ==
  IF Homogeneous(collected) THEN Reward(SetMin(AllVals(collected))) ELSE NoReward

\* np.max over the collected list (the default combination_strategy): the
\* largest element; np.max raises on a ragged list.
NpMax(collected) ==
  IF Homogeneous(collected) THEN Reward(SetMax(AllVals(collected))) ELSE NoReward

\* output_type = self._output_type or np.asarray(timestep.reward).dtype
OutputType(declared, truthy, ts) ==
  IF declared # "none" /\ truthy THEN declared ELSE ts.reward.dtype

CombineProcessImpl(children, flatten, declared, truthy, ts) ==
  LET gs == GivenRecords(children, ts, 1)
      rs == ReturnedRecords(children, gs)
  IN  IF \E k \in DOMAIN rs : rs[k].kind = "raise" THEN RaisedTs
      ELSE LET reward == NpMax(Collect(rs, flatten))
           IN  IF ~reward.ok THEN RaisedTs
               ELSE ReturnedTs([rs[Len(rs)].ts EXCEPT !.reward =
                      CastRewardToType(Scalar(reward.v, "float"),
                                       OutputType(declared, truthy, ts))])

\* CombineRewards._output_spec: the children are set up in order, each with
\* the spec the one before it returned, and the final reward dtype is kept.
CombineOutputSpec(children, dtype) ==
  [k \in DOMAIN children |-> ChildSetup(children[k], dtype)]

(***************************************************************************)
(* A preprocessor on its own: setup (setup_io_spec, which calls            *)
(* _output_spec with the input spec) and process.  An input spec has a     *)
(* reward dtype and an observation spec, a mapping from observation keys   *)
(* to dtypes; a timestep's observation is a mapping from keys to values.   *)
(***************************************************************************)
TimeStepSpec(reward_dtype, observation_spec) ==
  [reward_dtype |-> reward_dtype, observation_spec |-> observation_spec]

NoSpec == [kind |-> "none", error |-> "", spec |-> TimeStepSpec("none", <<>>)]
SetupRaised(error) == [kind |-> "raise", error |-> error, spec |-> TimeStepSpec("none", <<>>)]
SetupReturned(spec) == [kind |-> "value", error |-> "", spec |-> spec]

ProcessRaised(error) == [kind |-> "raise", error |-> error, reward |-> Scalar(0, "float")]
ProcessReturned(reward) == [kind |-> "value", error |-> "", reward |-> reward]

\* L2Reward.__init__: no output type before setup.
L2Reward(obs0, obs1, reward_scale, reward_offset) ==
  [kind |-> "l2", obs0 |-> obs0, obs1 |-> obs1, reward_scale |-> reward_scale,
   reward_offset |-> reward_offset, output_type |-> "none"]

\* np.promote_types of two element types.
PromoteTypes(type0, type1) ==
  IF type0 = "int" /\ type1 = "int" THEN "int" ELSE "float"

\* L2Reward._output_spec, the preprocessor it leaves: indexing the
\* observation spec with an absent key raises KeyError before _output_type
\* is assigned.
L2OutputSpec(p, input_spec) ==
  IF p.obs0 \in DOMAIN input_spec.observation_spec
       /\ p.obs1 \in DOMAIN input_spec.observation_spec
  THEN [p EXCEPT !.output_type =
          PromoteTypes(input_spec.observation_spec[p.obs0],
                       input_spec.observation_spec[p.obs1])]
  ELSE p

\* Mutant: setup does not look the keys up in the observation spec.
L2OutputSpecResultLazy(p, input_spec) == SetupReturned(input_spec)

\* L2Reward._output_spec, what it returns: the input spec with the reward
\* dtype replaced, or the KeyError of the failed lookup.
L2OutputSpecResult(p, input_spec) ==
  IF p.obs0 \in DOMAIN input_spec.observation_spec
       /\ p.obs1 \in DOMAIN input_spec.observation_spec
  THEN SetupReturned([input_spec EXCEPT !.reward_dtype =
         PromoteTypes(input_spec.observation_spec[p.obs0],
                      input_spec.observation_spec[p.obs1])])
  ELSE SetupRaised("KeyError")

Abs(x) == IF x < 0 THEN 0 - x ELSE x

\* L2Reward._process_impl over scalar keypoints: a key absent from the
\* observation raises KeyError; without a completed setup _output_type is
\* None and `.type` raises AttributeError.
L2ProcessImpl(p, observation) ==
  IF p.obs0 \notin DOMAIN observation \/ p.obs1 \notin DOMAIN observation
  THEN ProcessRaised("KeyError")
  ELSE IF p.output_type = "none" THEN ProcessRaised("AttributeError")
  ELSE LET dist == Abs(observation[p.obs0] - observation[p.obs1])
       IN  ProcessReturned(Scalar(
             CastVal(p.reward_offset - (dist * p.reward_scale) \div One, p.output_type),
             p.output_type))

\* ThresholdReward._output_spec, what it returns: the input spec.
ThresholdOutputSpecResult(p, input_spec) == SetupReturned(input_spec)

(***************************************************************************)
(* Action arrays.  An element is a number (in hundredths), NaN, or the     *)
(* unspecified integer a NaN becomes when it is stored in an integer       *)
(* array.                                                                  *)
(***************************************************************************)
Num(v) == [k |-> "num", v |-> v]
NaN == [k |-> "nan", v |-> 0]
Garbage == [k |-> "garbage", v |-> 0]

\* Storing an element in an array of a dtype (np.full's fill, item
\* assignment): an integer dtype truncates a number and has no NaN.
AsType(e, dtype) ==
  IF dtype = "float" THEN e
  ELSE IF e.k = "num" THEN Num(CastVal(e.v, dtype)) ELSE Garbage

Projected(arr, calls) == [kind |-> "value", arr |-> arr, calls |-> calls]
ProjectRaised(calls) == [kind |-> "raise", arr |-> <<>>, calls |-> calls]

\* _Deslicer.__init__, as prefix_slicer constructs it: the output shape is
\* the length of the mask; a missing default_value is NaN.
Deslicer(name, mask, dtype, default) ==
  [kind |-> "deslicer", name |-> name, mask |-> mask, dtype |-> dtype,
   default |-> default, action_space |-> <<>>, fixed_value |-> <<>>,
   action_spaces |-> <<>>]

\* np.count_nonzero(mask)
CountNonzero(mask) == Cardinality({i \in DOMAIN mask : mask[i]})

\* The number of selected positions of the mask up to and including i.
Rank(mask, i) == Cardinality({j \in 1 .. i : mask[j]})

\* _Deslicer.project: np.full with the default, then output[mask] = action,
\* which takes the action's elements in index order, broadcasts an action of
\* one element, and raises ValueError on any other length mismatch.
DeslicerProject(d, action) ==
  LET n == CountNonzero(d.mask)
  IN  IF n > 0 /\ Len(action) # n /\ Len(action) # 1
      THEN ProjectRaised(<<d.name>>)
      ELSE Projected(
             [i \in DOMAIN d.mask |->
                IF d.mask[i] /\ n > 0
                THEN AsType(IF Len(action) = 1 THEN action[1]
                            ELSE action[Rank(d.mask, i)], d.dtype)
                ELSE AsType(d.default, d.dtype)],
             <<d.name>>)

\* _Deslicer.spec: the input spec prefix_slicer builds, one component per
\* selected position, of the output dtype.
DeslicerSpec(d) == [shape |-> CountNonzero(d.mask), dtype |-> d.dtype]

(***************************************************************************)
(* prefix_slicer.  A spec has a kind (the class it is an instance of), a   *)
(* shape (a tuple), a dtype, bounds (none, a scalar broadcast over the     *)
(* shape, or an array of the shape) and a name: None or a string, a        *)
(* sequence of characters.                                                 *)
(***************************************************************************)
Tab == "\t"

NoneName == [none |-> TRUE, chars |-> <<>>]
StrName(chars) == [none |-> FALSE, chars |-> chars]

PrimitiveSpec(kind, shape, dtype, bounds, name) ==
  [kind |-> kind, shape |-> shape, dtype |-> dtype, bounds |-> bounds, name |-> name]

\* np.prod(spec.shape); the product of the empty tuple is 1.
RECURSIVE NpProd(_)
NpProd(shape) == IF shape = <<>> THEN 1 ELSE Head(shape) * NpProd(Tail(shape))

\* Mutant: names are split as str.split() does, dropping empty names.
RECURSIVE SplitDroppingEmpty(_)
SplitDroppingEmpty(chars) ==
  LET tabs == {i \in DOMAIN chars : chars[i] = Tab}
  IN  IF tabs = {} THEN (IF chars = <<>> THEN <<>> ELSE <<chars>>)
      ELSE LET i == SetMin(tabs)
           IN  (IF i = 1 THEN <<>> ELSE <<SubSeq(chars, 1, i - 1)>>)
                 \o SplitDroppingEmpty(SubSeq(chars, i + 1, Len(chars)))

\* spec.name.split('\t'): the pieces between tabs, empty pieces included.
RECURSIVE Split(_)
Split(chars) ==
  LET tabs == {i \in DOMAIN chars : chars[i] = Tab}
  IN  IF tabs = {} THEN <<chars>>
      ELSE LET i == SetMin(tabs)
           IN  <<SubSeq(chars, 1, i - 1)>> \o Split(SubSeq(chars, i + 1, Len(chars)))

\* re.match(prefix_expr, name) is not None, for a prefix that is a literal
\* string: the name starts with it.
ReMatch(prefix, name) ==
  Len(prefix) <= Len(name) /\ SubSeq(name, 1, Len(prefix)) = prefix

IdentityActionSpace(spec) ==
  [kind |-> "identity", name |-> "identity", mask |-> <<>>, dtype |-> spec.dtype,
   default |-> NaN, action_space |-> <<>>, fixed_value |-> <<>>,
   action_spaces |-> <<>>]

SlicerRaised(error) == [kind |-> "raise", error |-> error, space |-> <<>>]
SlicerReturned(space) == [kind |-> "value", error |-> "", space |-> space]

\* prefix_slicer, statement by statement: the empty special case; split of
\* the name (None has no split: AttributeError); spec.shape[0] (IndexError
\* on a scalar shape); the name count; the class of the spec; for a
\* BoundedArray, spec.minimum[indices] (IndexError when the bound is a
\* scalar broadcast over the shape).
PrefixSlicer(spec, prefix, default_value) ==
  IF NpProd(spec.shape) = 0 THEN SlicerReturned(IdentityActionSpace(spec))
  ELSE IF spec.name.none THEN SlicerRaised("AttributeError")
  ELSE LET names == Split(spec.name.chars)
           indices == [i \in DOMAIN names |-> ReMatch(prefix, names[i])]
       IN  IF spec.shape = <<>> THEN SlicerRaised("IndexError")
           ELSE IF Len(names) # spec.shape[1] THEN SlicerRaised("ValueError")
           ELSE IF spec.kind = "DiscreteArray" THEN SlicerRaised("ValueError")
           ELSE IF spec.kind = "BoundedArray" /\ spec.bounds = "scalar"
                THEN SlicerRaised("IndexError")
           ELSE IF spec.kind \notin {"BoundedArray", "Array"}
                THEN SlicerRaised("ValueError")
           ELSE SlicerReturned(Deslicer(prefix, indices, spec.dtype, default_value))

\* FixedActionSpace.__init__ (after its shape check).
FixedActionSpace(action_space, fixed_value) ==
  [kind |-> "fixed", name |-> "Fixed", mask |-> <<>>, dtype |-> "float",
   default |-> NaN, action_space |-> action_space,
   fixed_value |-> fixed_value, action_spaces |-> <<>>]

\* FixedActionSpace.spec: an empty float32 bounded array.
FixedSpec == [shape |-> 0, dtype |-> "float"]

\* SequentialActionSpace.__init__
SequentialActionSpace(action_spaces) ==
  [kind |-> "sequential", name |-> action_spaces[1].name, mask |-> <<>>,
   dtype |-> "float", default |-> NaN, action_space |-> <<>>,
   fixed_value |-> <<>>, action_spaces |-> action_spaces]

\* Mutant: FixedActionSpace forwards the caller's action.
RECURSIVE ProjectForwarding(_, _)
ProjectForwarding(space, action) ==
  IF space.kind = "deslicer" THEN DeslicerProject(space, action)
  ELSE LET r == ProjectForwarding(space.action_space, action)
       IN  [r EXCEPT !.calls = <<"Fixed">> \o r.calls]

\* project of a stage (a deslicer or a FixedActionSpace).  calls lists the
\* project methods entered, in order.
RECURSIVE StageProject(_, _)
StageProject(space, action) ==
  IF space.kind = "deslicer" THEN DeslicerProject(space, action)
  ELSE LET r == StageProject(space.action_space, space.fixed_value)
       IN  [r EXCEPT !.calls = <<"Fixed">> \o r.calls]

\* spec() of a stage.
StageSpec(space) ==
  IF space.kind = "deslicer" THEN DeslicerSpec(space) ELSE FixedSpec

\* Mutant: the stages are applied last to first.
RECURSIVE SequentialLoopReversed(_, _, _)
SequentialLoopReversed(stages, action, calls) ==
  IF stages = <<>> THEN Projected(action, calls)
  ELSE LET r == StageProject(stages[Len(stages)], action)
       IN  IF r.kind = "raise" THEN ProjectRaised(calls \o r.calls)
           ELSE SequentialLoopReversed(SubSeq(stages, 1, Len(stages) - 1),
                                       r.arr, calls \o r.calls)

\* SequentialActionSpace.project: `for action_space in self._action_spaces:
\* action = action_space.project(action)`; an exception leaves the loop.
RECURSIVE SequentialLoop(_, _, _)
SequentialLoop(stages, action, calls) ==
  IF stages = <<>> THEN Projected(action, calls)
  ELSE LET r == StageProject(Head(stages), action)
       IN  IF r.kind = "raise" THEN ProjectRaised(calls \o r.calls)
           ELSE SequentialLoop(Tail(stages), r.arr, calls \o r.calls)

\* SequentialActionSpace.spec
SequentialSpec(space) == StageSpec(space.action_spaces[1])

(***************************************************************************)
(* constrained_action_spec.  A bound (minimum or maximum) is a scalar or a *)
(* 1-d array; a scalar has one value.                                      *)
(***************************************************************************)
ScalarBound(v) == [scalar |-> TRUE, vals |-> <<v>>]
ArrayBound(vs) == [scalar |-> FALSE, vals |-> vs]

\* specs.BoundedArray(shape=(n,), dtype, minimum, maximum, name)
BoundedArray(n, dtype, lo, hi, name) ==
  [shape |-> n, dtype |-> dtype, minimum |-> lo, maximum |-> hi, name |-> name]

\* np.array(bound, dtype=base.dtype)
NpArray(b, dtype) ==
  [b EXCEPT !.vals = [i \in DOMAIN b.vals |-> CastVal(b.vals[i], dtype)]]

\* .shape
SameShape(a, b) == a.scalar = b.scalar /\ Len(a.vals) = Len(b.vals)

\* The value a bound has for component i (a scalar broadcasts).
Component(b, i) == IF b.scalar THEN b.vals[1] ELSE b.vals[i]

\* np.maximum / np.minimum of two bounds of one shape.
NpMaximum(a, b) == [a EXCEPT !.vals = [i \in DOMAIN a.vals |-> Max2(a.vals[i], b.vals[i])]]
NpMinimum(a, b) == [a EXCEPT !.vals = [i \in DOMAIN a.vals |-> Min2(a.vals[i], b.vals[i])]]

\* np.any(minimum > maximum), the two broadcast against each other.
AnyGreater(lo, hi) ==
  \E i \in 1 .. Max2(Len(lo.vals), Len(hi.vals)) : Component(lo, i) > Component(hi, i)

SpecRaised == [kind |-> "raise", spec |-> BoundedArray(0, "float", ScalarBound(0), ScalarBound(0), "")]
SpecReturned(spec) == [kind |-> "value", spec |-> spec]

ConstrainedActionSpec(lo, hi, b) ==
  LET lo_a == NpArray(lo, b.dtype)
      hi_a == NpArray(hi, b.dtype)
  IN  IF ~SameShape(lo_a, b.minimum) THEN SpecRaised
      ELSE IF ~SameShape(hi_a, b.maximum) THEN SpecRaised
      ELSE LET new_lo == NpMaximum(b.minimum, lo_a)
               new_hi == NpMinimum(b.maximum, hi_a)
           IN  IF AnyGreater(new_lo, new_hi) THEN SpecRaised
               ELSE SpecReturned(BoundedArray(b.shape, b.dtype, new_lo, new_hi, b.name))

(***************************************************************************)
(* Inputs.                                                                 *)
(***************************************************************************)
ChildConfigs ==
  {ThresholdReward(50, 70, 30), ThresholdReward(20, 70, 0),
   ComputeReward("obs"), ComputeReward("pair")}

ChildLists == SeqsUpTo(ChildConfigs, MaxChildren) \ {<<>>}

TimeSteps ==
  {TimeStep(Scalar(v, "float"), o) : v \in {0, 30, 70}, o \in {30, 70}}
    \cup {TimeStep(Scalar(v, "int"), o) : v \in {0, 100}, o \in {30, 70}}

NoTimeStep == TimeStep(Scalar(0, "float"), 0)

Elems == {Num(50), Num(-150), NaN}

Actions == SeqsUpTo(Elems, MaxAction)

Masks == SeqsUpTo(BOOLEAN, MaxMask) \ {<<>>}

Defaults == {NaN, Num(0), Num(50)}

Deslicers == {Deslicer("prefix", m, t, d) : m \in Masks, t \in DTypes, d \in Defaults}

FixedValues == SeqsUpTo({Num(50), NaN}, MaxMask)

\* The FixedActionSpaces whose constructor does not raise: the constant has
\* the shape of the inner space's spec.
FixedSpaces ==
  UNION {{FixedActionSpace(d, c) : c \in {v \in FixedValues : Len(v) = DeslicerSpec(d).shape}}
           : d \in Deslicers}

StageA == Deslicer("a", <<TRUE, FALSE>>, "float", Num(0))
StageB == Deslicer("b", <<FALSE, TRUE, TRUE>>, "int", NaN)
StageC == Deslicer("c", <<TRUE>>, "float", NaN)
StageF == FixedActionSpace(StageC, <<Num(50)>>)

StageSpaces == {StageA, StageB, StageC, StageF}

SequentialSpaces ==
  {SequentialActionSpace(l) : l \in SeqsUpTo(StageSpaces, MaxStages) \ {<<>>}}

NoSpace == Deslicer("", <<FALSE>>, "float", NaN)

\* Base specs: minimum <= maximum in every component, whole numbers only
\* when the dtype is an integer type.
BaseBounds(n, S) ==
  {ScalarBound(v) : v \in S} \cup {ArrayBound(vs) : vs \in {t \in SeqsUpTo(S, n) : Len(t) = n}}

Bases ==
  UNION {{BoundedArray(n, t, lo, hi, "x") : lo \in BaseBounds(n, {-100, 0}),
                                           hi \in BaseBounds(n, {0, 100}),
                                           t \in DTypes} : n \in 1 .. MaxDim}

GivenBounds(S) ==
  {ScalarBound(v) : v \in S} \cup {ArrayBound(vs) : vs \in SeqsUpTo(S, MaxDim) \ {<<>>}}

GivenMinimums == GivenBounds({-50, 90})
GivenMaximums == GivenBounds({10, 150})

NoBase == BoundedArray(0, "float", ScalarBound(0), ScalarBound(0), "")

\* Observation keys, the observation specs and the observations over them.
ObsKeys == {"a", "b"}

ObsVals == {0, 30, 70}

ObservationSpecs == UNION {[S -> DTypes] : S \in SUBSET ObsKeys}

Observations == UNION {[S -> ObsVals] : S \in SUBSET ObsKeys}

InputSpecs == {TimeStepSpec(t, o) : t \in DTypes, o \in ObservationSpecs}

\* The specs and the observation a ThresholdReward, which reads neither the
\* observation spec nor the observation, is exercised with.
ThresholdInputSpecs == {TimeStepSpec(t, <<>>) : t \in DTypes}

NoObservation == <<>>

\* Rewards an incoming timestep carries.
IncomingRewards ==
  {Scalar(v, "float") : v \in {0, 20, 50, 70}} \cup {Scalar(v, "int") : v \in {0, 100}}

ThresholdRewards ==
  {ThresholdReward(50, 70, 30), ThresholdReward(20, 70, 0), ThresholdReward(50, 150, -50)}

L2Rewards ==
  {L2Reward(obs0, obs1, scale, One) : obs0 \in ObsKeys, obs1 \in ObsKeys, scale \in {One, 50}}

NoPreprocessor == ThresholdReward(0, 0, 0)

\* Spec names: None, or a string of up to MaxName characters.
SpecNames == {NoneName} \cup {StrName(c) : c \in SeqsUpTo({"a", "b", Tab}, MaxName)}

\* Shapes: a scalar, 1-d of 0 .. MaxMask components, and an empty 2-d one.
Shapes == {<<>>, <<2, 0>>} \cup {<<n>> : n \in 0 .. MaxMask}

\* dm_env's own DiscreteArray has the scalar shape; a 1-d one is an instance
\* of a subclass.  "Other" is a spec of neither array class.
PrimitiveSpecs ==
  {PrimitiveSpec("Array", sh, t, "none", n) : sh \in Shapes, t \in DTypes, n \in SpecNames}
    \cup {PrimitiveSpec("BoundedArray", sh, t, b, n) :
             sh \in Shapes, t \in DTypes, b \in {"scalar", "array"}, n \in SpecNames}
    \cup {PrimitiveSpec("DiscreteArray", sh, "int", "scalar", n) :
             sh \in {<<>>} \cup {<<k>> : k \in 1 .. MaxMask}, n \in SpecNames}
    \cup {PrimitiveSpec("Other", sh, t, "none", n) : sh \in Shapes, t \in DTypes, n \in SpecNames}

\* Prefixes: literal regular expressions.
Prefixes == {<<>>, <<"a">>, <<"b">>}

NoSlicer ==
  /\ slicedSpec = PrimitiveSpec("Array", <<>>, "float", "none", NoneName)
  /\ slicerPrefix = <<>>
  /\ slicerDefault = NaN

(***************************************************************************)
(* The state machine.                                                      *)
(***************************************************************************)
NoPre ==
  /\ preprocessor = NoPreprocessor
  /\ configured = NoPreprocessor
  /\ setups = 0
  /\ last_input_spec = TimeStepSpec("none", <<>>)
  /\ last_output_spec = NoSpec

InitStaged ==
  /\ sys = "staged"
  /\ pc = "start"
  /\ rewards \in RewardSeqs
  /\ thresh \in ThreshVals
  /\ cumulative \in BOOLEAN
  /\ ret = NoRet
  /\ reward_preprocessors = <<>>
  /\ flatten_rewards = TRUE
  /\ output_type = "none"
  /\ dtype_truthy = FALSE
  /\ timestep = NoTimeStep
  /\ given = <<>>
  /\ returned = <<>>
  /\ actionSpace = NoSpace /\ projectArg = <<>>
  /\ base = NoBase /\ minimum = ScalarBound(0) /\ maximum = ScalarBound(0)
  /\ NoPre
  /\ NoSlicer

\* CombineRewards.__init__: a non-empty list of children, not set up.
InitCombine ==
  /\ sys = "combine"
  /\ pc = "start"
  /\ reward_preprocessors \in ChildLists
  /\ flatten_rewards \in BOOLEAN
  /\ output_type = "none"
  /\ dtype_truthy \in BOOLEAN
  /\ timestep = NoTimeStep
  /\ given = <<>>
  /\ returned = <<>>
  /\ ret = NoRet
  /\ rewards = <<>>
  /\ thresh = 0
  /\ cumulative = FALSE
  /\ actionSpace = NoSpace /\ projectArg = <<>>
  /\ base = NoBase /\ minimum = ScalarBound(0) /\ maximum = ScalarBound(0)
  /\ NoPre
  /\ NoSlicer

NoCombine ==
  /\ reward_preprocessors = <<>>
  /\ flatten_rewards = TRUE
  /\ output_type = "none"
  /\ dtype_truthy = FALSE
  /\ timestep = NoTimeStep
  /\ given = <<>>
  /\ returned = <<>>
  /\ rewards = <<>>
  /\ thresh = 0
  /\ cumulative = FALSE

\* An action space after construction: a deslicer built by prefix_slicer, a
\* FixedActionSpace or a SequentialActionSpace.
InitAction ==
  /\ sys = "action"
  /\ pc = "start"
  /\ actionSpace \in Deslicers \cup FixedSpaces \cup SequentialSpaces
  /\ projectArg = <<>>
  /\ ret = NoRet
  /\ base = NoBase /\ minimum = ScalarBound(0) /\ maximum = ScalarBound(0)
  /\ NoPre
  /\ NoSlicer
  /\ NoCombine

\* The arguments of a call of constrained_action_spec.
InitConstrain ==
  /\ sys = "constrain"
  /\ pc = "start"
  /\ base \in Bases
  /\ minimum \in GivenMinimums
  /\ maximum \in GivenMaximums
  /\ ret = NoRet
  /\ actionSpace = NoSpace /\ projectArg = <<>>
  /\ NoPre
  /\ NoSlicer
  /\ NoCombine

\* A ThresholdReward or an L2Reward after construction, not set up.
InitPre ==
  /\ sys = "pre"
  /\ pc = "start"
  /\ preprocessor \in ThresholdRewards \cup L2Rewards
  /\ configured = preprocessor
  /\ setups = 0
  /\ last_input_spec = TimeStepSpec("none", <<>>)
  /\ last_output_spec = NoSpec
  /\ ret = NoRet
  /\ actionSpace = NoSpace /\ projectArg = <<>>
  /\ base = NoBase /\ minimum = ScalarBound(0) /\ maximum = ScalarBound(0)
  /\ NoSlicer
  /\ NoCombine

\* The arguments of a call of prefix_slicer.
InitSlicer ==
  /\ sys = "slicer"
  /\ pc = "start"
  /\ slicedSpec \in PrimitiveSpecs
  /\ slicerPrefix \in Prefixes
  /\ slicerDefault \in {NaN, Num(0)}
  /\ ret = NoRet
  /\ actionSpace = NoSpace /\ projectArg = <<>>
  /\ base = NoBase /\ minimum = ScalarBound(0) /\ maximum = ScalarBound(0)
  /\ NoPre
  /\ NoCombine

Init ==
  InitStaged \/ InitCombine \/ InitAction \/ InitConstrain \/ InitPre \/ InitSlicer

CallActive ==
  /\ sys = "staged" /\ pc = "start"
  /\ ret' = StagedWithActiveThreshold(rewards, thresh)
  /\ pc' = "active"
  /\ UNCHANGED <<sys, stagedVars, combineVars, actionVars, constrainVars, preVars, slicerVars>>

CallSuccess ==
  /\ sys = "staged" /\ pc = "start"
  /\ ret' = StagedWithSuccessThreshold(rewards, thresh, cumulative)
  /\ pc' = "success"
  /\ UNCHANGED <<sys, stagedVars, combineVars, actionVars, constrainVars, preVars, slicerVars>>

\* CombineRewards set up with an input spec of some reward dtype.
CombineSetup ==
  /\ sys = "combine" /\ pc = "start"
  /\ \E dtype \in DTypes :
       /\ reward_preprocessors' = CombineOutputSpec(reward_preprocessors, dtype)
       /\ output_type' = dtype
  /\ pc' = "ready"
  /\ UNCHANGED <<sys, ret, stagedVars, flatten_rewards, dtype_truthy,
                 timestep, given, returned, actionVars, constrainVars, preVars, slicerVars>>

\* CombineRewards processes a timestep, set up or stand-alone.
CombineProcess ==
  /\ sys = "combine" /\ pc \in {"start", "ready"}
  /\ \E ts \in TimeSteps :
       /\ timestep' = ts
       /\ given' = GivenRecords(reward_preprocessors, ts, 1)
       /\ returned' = ReturnedRecords(reward_preprocessors, given')
       /\ ret' = CombineProcessImpl(reward_preprocessors, flatten_rewards,
                                    output_type, dtype_truthy, ts)
  /\ pc' = "combined"
  /\ UNCHANGED <<sys, stagedVars, reward_preprocessors, flatten_rewards,
                 output_type, dtype_truthy, actionVars, constrainVars, preVars, slicerVars>>

\* _Deslicer.project(action)
ProjectDeslicer ==
  /\ sys = "action" /\ pc = "start" /\ actionSpace.kind = "deslicer"
  /\ \E x \in Actions :
       /\ projectArg' = x
       /\ ret' = DeslicerProject(actionSpace, x)
  /\ pc' = "projected"
  /\ UNCHANGED <<sys, actionSpace, stagedVars, combineVars, constrainVars, preVars, slicerVars>>

\* FixedActionSpace.project(action), called any number of times.
ProjectFixed ==
  /\ sys = "action" /\ actionSpace.kind = "fixed"
  /\ \E x \in Actions :
       /\ projectArg' = x
       /\ ret' = StageProject(actionSpace, x)
  /\ pc' = IF pc = "start" THEN "projected" ELSE "reprojected"
  /\ UNCHANGED <<sys, actionSpace, stagedVars, combineVars, constrainVars, preVars, slicerVars>>

\* SequentialActionSpace.project(action)
ProjectSequential ==
  /\ sys = "action" /\ pc = "start" /\ actionSpace.kind = "sequential"
  /\ \E x \in Actions :
       /\ projectArg' = x
       /\ ret' = SequentialLoop(actionSpace.action_spaces, x, <<>>)
  /\ pc' = "projected"
  /\ UNCHANGED <<sys, actionSpace, stagedVars, combineVars, constrainVars, preVars, slicerVars>>

\* constrained_action_spec(minimum, maximum, base)
CallConstrainedActionSpec ==
  /\ sys = "constrain" /\ pc = "start"
  /\ ret' = ConstrainedActionSpec(minimum, maximum, base)
  /\ pc' = "constrained"
  /\ UNCHANGED <<sys, stagedVars, combineVars, actionVars, constrainVars, preVars, slicerVars>>

\* ThresholdReward set up (again) with an input spec.
SetupThreshold ==
  /\ sys = "pre" /\ pc \in {"start", "setup"} /\ preprocessor.kind = "threshold"
  /\ setups < MaxSetups
  /\ \E spec \in ThresholdInputSpecs :
       /\ last_input_spec' = spec
       /\ preprocessor' = ChildSetup(preprocessor, spec.reward_dtype)
       /\ last_output_spec' = ThresholdOutputSpecResult(preprocessor, spec)
  /\ setups' = setups + 1
  /\ pc' = "setup"
  /\ UNCHANGED <<sys, ret, configured, stagedVars, combineVars, actionVars,
                 constrainVars, slicerVars>>

\* ThresholdReward processes a timestep.
ProcessThreshold ==
  /\ sys = "pre" /\ pc \in {"start", "setup"} /\ preprocessor.kind = "threshold"
  /\ \E r \in IncomingRewards :
       /\ timestep' = TimeStep(r, NoObservation)
       /\ ret' = ThresholdProcessImpl(preprocessor, timestep')
  /\ pc' = "processed"
  /\ UNCHANGED <<sys, stagedVars, reward_preprocessors, flatten_rewards,
                 output_type, dtype_truthy, given, returned, actionVars,
                 constrainVars, preVars, slicerVars>>

\* L2Reward set up (again) with an input spec.
SetupL2 ==
  /\ sys = "pre" /\ pc \in {"start", "setup"} /\ preprocessor.kind = "l2"
  /\ setups < MaxSetups
  /\ \E spec \in InputSpecs :
       /\ last_input_spec' = spec
       /\ preprocessor' = L2OutputSpec(preprocessor, spec)
       /\ last_output_spec' = L2OutputSpecResult(preprocessor, spec)
  /\ setups' = setups + 1
  /\ pc' = "setup"
  /\ UNCHANGED <<sys, ret, configured, stagedVars, combineVars, actionVars,
                 constrainVars, slicerVars>>

\* L2Reward processes a timestep.
ProcessL2 ==
  /\ sys = "pre" /\ pc \in {"start", "setup"} /\ preprocessor.kind = "l2"
  /\ \E o \in Observations :
       /\ timestep' = TimeStep(Scalar(0, "float"), o)
       /\ ret' = L2ProcessImpl(preprocessor, o)
  /\ pc' = "processed"
  /\ UNCHANGED <<sys, stagedVars, reward_preprocessors, flatten_rewards,
                 output_type, dtype_truthy, given, returned, actionVars,
                 constrainVars, preVars, slicerVars>>

\* prefix_slicer(spec, prefix, default_value)
CallPrefixSlicer ==
  /\ sys = "slicer" /\ pc = "start"
  /\ ret' = PrefixSlicer(slicedSpec, slicerPrefix, slicerDefault)
  /\ pc' = "sliced"
  /\ UNCHANGED <<sys, stagedVars, combineVars, actionVars, constrainVars, preVars,
                 slicerVars>>

Next ==
  \/ CallPrefixSlicer
  \/ SetupThreshold
  \/ ProcessThreshold
  \/ SetupL2
  \/ ProcessL2
  \/ CallActive
  \/ CallSuccess
  \/ CombineSetup
  \/ CombineProcess
  \/ ProjectDeslicer
  \/ ProjectFixed
  \/ ProjectSequential
  \/ CallConstrainedActionSpec

Spec == Init /\ [][Next]_vars

(***************************************************************************)
(* Claims about the staged reward combination strategies.                  *)
(***************************************************************************)
\* 1-based positions whose clipped reward is at or above the threshold.
ActiveIdx(rs, th) == {k \in 1 .. Len(rs) : Clip(rs[k]) >= th}

\* 1-based positions whose clipped reward is strictly above the threshold.
SolvedIdx(rs, th) == {k \in 1 .. Len(rs) : Clip(rs[k]) > th}

\* C1: when some clipped reward is >= threshold, StagedWithActiveThreshold
\* returns (i + r[i]) / n for the rightmost such 0-based index i; threshold
\* 0.9 on [0.95, 0.92, 0.6] gives (1 + 0.92) / 3.
C1_ActiveRightmost ==
  /\ (pc = "active" /\ Len(rewards) >= 1 /\ ActiveIdx(rewards, thresh) # {}) =>
       LET i == SetMax(ActiveIdx(rewards, thresh)) - 1
       IN  ret = Value(i * One + Clip(rewards[i + 1]), Len(rewards))
  /\ (pc = "active" /\ rewards = <<95, 92, 60>> /\ thresh = 90) =>
       ret = Value(1 * One + 92, 3)

C1_Witness ==
  /\ pc = "active" /\ rewards = <<95, 92, 60>> /\ thresh = 90
  /\ ret = Value(192, 3)

\* C2 (as stated): when no clipped reward is >= threshold,
\* StagedWithActiveThreshold returns the final entry's clipped value / n.
C2_NoneActiveFinalEntry ==
  (pc = "active" /\ Len(rewards) >= 1 /\ ActiveIdx(rewards, thresh) = {}) =>
    ret = Value(Clip(rewards[Len(rewards)]), Len(rewards))

\* C2 (amended): when no clipped reward is >= threshold,
\* StagedWithActiveThreshold returns the FIRST entry's clipped value / n: the
\* last element the reverse scan visits is the first entry of the sequence.
C2_NoneActiveFirstEntry ==
  (pc = "active" /\ Len(rewards) >= 1 /\ ActiveIdx(rewards, thresh) = {}) =>
    ret = Value(Clip(rewards[1]), Len(rewards))

C2_Witness ==
  /\ pc = "active" /\ rewards = <<60, 0>> /\ thresh = 90
  /\ ActiveIdx(rewards, thresh) = {}
  /\ ret = Value(60, 2)

\* C3: with assume_cumulative_success, StagedWithSuccessThreshold returns
\* (s + r[s]) / n with s = min(k, n - 1) and k = (index of the last reward
\* strictly above threshold) + 1, or 0 when there is none; threshold 0.9 on
\* [0.95, 0.92, 0.6] gives (2 + 0.6) / 3.
C3_CumulativeSuccess ==
  /\ (pc = "success" /\ cumulative /\ Len(rewards) >= 1) =>
       LET n == Len(rewards)
           solved == SolvedIdx(rewards, thresh)
           k == IF solved = {} THEN 0 ELSE SetMax(solved)
           s == Min2(k, n - 1)
       IN  ret = Value(s * One + Clip(rewards[s + 1]), n)
  /\ (pc = "success" /\ cumulative /\ rewards = <<95, 92, 60>> /\ thresh = 90) =>
       ret = Value(2 * One + 60, 3)

C3_Witness ==
  /\ pc = "success" /\ cumulative /\ rewards = <<95, 92, 60>> /\ thresh = 90
  /\ ret = Value(260, 3)

\* C4: without assume_cumulative_success, the solved count is the number of
\* contiguous leading rewards above threshold (n when all are above), it is
\* clamped to n - 1, and the result is (solved count + r[solved count]) / n.
C4_LeadingSuccess ==
  (pc = "success" /\ ~cumulative /\ Len(rewards) >= 1) =>
    LET n == Len(rewards)
        unsolved == (1 .. n) \ SolvedIdx(rewards, thresh)
        leading == IF unsolved = {} THEN n ELSE SetMin(unsolved) - 1
        s == Min2(leading, n - 1)
    IN  ret = Value(s * One + Clip(rewards[s + 1]), n)

\* The strategy the behaviour called, applied to another sequence.
CalledStrategy(rs) ==
  IF pc = "active" THEN StagedWithActiveThreshold(rs, thresh)
  ELSE StagedWithSuccessThreshold(rs, thresh, cumulative)

\* C15: staged rewards never punish progress: for either strategy (the
\* success one in either mode), every threshold in [0, 1] and every two
\* sequences of one length n >= 1 that differ in one position only, the
\* sequence with the larger reward there yields a combined reward that is
\* not smaller.
C15_NeverPunishProgress ==
  (sys = "staged" /\ pc \in {"active", "success"} /\ Len(rewards) >= 1
     /\ thresh >= 0 /\ thresh <= One) =>
    \A k \in 1 .. Len(rewards), v \in RewardVals :
      v > rewards[k] =>
        CalledStrategy([rewards EXCEPT ![k] = v]).num >= ret.num

\* C16: for every sequence of length n >= 1, with values outside [0, 1]
\* too, and every threshold, the value either strategy returns lies in
\* [0, 1], equals the value returned for the sequence clipped into [0, 1]
\* beforehand, and is (i + r[i]) / n for an index i within 0 .. n - 1, r
\* the clipped sequence.
C16_StagedInUnitInterval ==
  (sys = "staged" /\ pc \in {"active", "success"} /\ Len(rewards) >= 1) =>
    /\ ret.kind = "value"
    /\ ret.den = Len(rewards)
    /\ ret.num >= 0 /\ ret.num <= One * ret.den
    /\ ret = CalledStrategy(ClipSeq(rewards))
    /\ \E i \in 0 .. Len(rewards) - 1 : ret.num = i * One + Clip(rewards[i + 1])
    /\ pc = "success" =>
         LET i == SuccessIndex(rewards, thresh, cumulative)
         IN  /\ i \in 0 .. Len(rewards) - 1
             /\ ret.num = i * One + Clip(rewards[i + 1])

C16_Witness ==
  /\ sys = "staged" /\ pc = "success" /\ ~cumulative
  /\ rewards = <<150, -50>> /\ thresh = 90
  /\ SuccessIndex(rewards, thresh, cumulative) = 1
  /\ ret = Value(100, 2)

(***************************************************************************)
(* Claims about CombineRewards.                                            *)
(***************************************************************************)
\* Every child returned a record (none raised).
AllReturned ==
  /\ Len(returned) = Len(reward_preprocessors)
  /\ \A k \in DOMAIN returned : returned[k].kind = "value"

\* The largest element among the rewards the children returned.
MaxChildReward ==
  SetMax(UNION {{returned[k].ts.reward.vals[j] : j \in DOMAIN returned[k].ts.reward.vals}
                  : k \in DOMAIN returned})

\* The dtype the combined reward is converted to.
UsedOutputType ==
  IF output_type # "none" /\ dtype_truthy THEN output_type ELSE timestep.reward.dtype

ExampleChildren == <<ThresholdReward(50, 70, 30), ThresholdReward(20, 70, 0)>>

\* C5 (as stated): with the default strategy the returned record's reward is
\* the maximum over the rewards collected from the children.
C5_MaxOfCollected ==
  (pc = "combined" /\ ret.kind = "value") =>
    ret.ts.reward.vals = <<MaxChildReward>>

\* C5 (amended): with the default strategy the returned record's reward is
\* the maximum over the rewards collected from the children, in child order
\* and flattened when flatten_rewards is set, converted to the output dtype
\* (an integer dtype truncates it); children producing 0.3 and 0.7 yield
\* 0.7 in a floating dtype.  With flatten_rewards set the combination never
\* fails once every child has returned.
C5_MaxOfCollectedCast ==
  /\ (pc = "combined" /\ ret.kind = "value") =>
       /\ AllReturned
       /\ IsScalar(ret.ts.reward)
       /\ ret.ts.reward.dtype = UsedOutputType
       /\ ret.ts.reward.vals = <<CastVal(MaxChildReward, UsedOutputType)>>
       /\ UsedOutputType = "float" => ret.ts.reward.vals = <<MaxChildReward>>
  /\ (pc = "combined" /\ AllReturned /\ flatten_rewards) => ret.kind = "value"
  /\ (pc = "combined" /\ reward_preprocessors = ExampleChildren
        /\ timestep.reward = Scalar(0, "float")) =>
       /\ returned[1].ts.reward.vals = <<30>>
       /\ returned[2].ts.reward.vals = <<70>>
       /\ ret.kind = "value" /\ ret.ts.reward.vals = <<70>>

C5_Witness ==
  /\ pc = "combined" /\ reward_preprocessors = ExampleChildren
  /\ timestep.reward = Scalar(0, "float")
  /\ ret.kind = "value" /\ ret.ts.reward = Scalar(70, "float")

\* C6 (as stated): every child is given a copy of the record CombineRewards
\* received, so what it returns does not depend on the children before it.
C6_ChildrenGivenCopies ==
  pc = "combined" =>
    \A k \in DOMAIN given :
      /\ given[k] = timestep
      /\ returned[k] = ChildProcess(reward_preprocessors[k], timestep)

\* C6 (amended): the children run in the configured order, the first over
\* the record CombineRewards received and every later one over the record
\* the child before it returned; the returned record is the last child's
\* with the combined reward.
C6_ChildrenChained ==
  pc = "combined" =>
    /\ Len(given) >= 1 /\ Len(given) <= Len(reward_preprocessors)
    /\ given[1] = timestep
    /\ \A k \in DOMAIN given :
         /\ returned[k] = ChildProcess(reward_preprocessors[k], given[k])
         /\ k > 1 => /\ returned[k - 1].kind = "value"
                     /\ given[k] = returned[k - 1].ts
    /\ ret.kind = "value" =>
         ret.ts.observation = returned[Len(returned)].ts.observation

C6_Witness ==
  /\ pc = "combined" /\ Len(given) = 2
  /\ given[2] # timestep
  /\ given[2] = returned[1].ts
  /\ returned[2] # ChildProcess(reward_preprocessors[2], timestep)

(***************************************************************************)
(* Claims about the action spaces.                                         *)
(***************************************************************************)
\* C7: _Deslicer.project(a) returns an array of the output length whose k-th
\* selected position holds a[k] and whose unselected positions hold the
\* default (NaN when none was given); all default when nothing is selected,
\* and a itself when everything is selected.
C7_DeslicerProject ==
  (sys = "action" /\ pc = "projected" /\ actionSpace.kind = "deslicer"
     /\ (Len(projectArg) = CountNonzero(actionSpace.mask)
           \/ CountNonzero(actionSpace.mask) = 0)) =>
    /\ ret.kind = "value"
    /\ Len(ret.arr) = Len(actionSpace.mask)
    /\ \A i \in DOMAIN actionSpace.mask :
         IF actionSpace.mask[i]
         THEN ret.arr[i] = projectArg[Rank(actionSpace.mask, i)]
         ELSE ret.arr[i] = actionSpace.default
    /\ (\A i \in DOMAIN actionSpace.mask : actionSpace.mask[i]) => ret.arr = projectArg

\* A_k.project(... A_1.project(x) ...), from the outermost stage inwards.
RECURSIVE Nested(_, _)
Nested(stages, x) ==
  IF stages = <<>> THEN Projected(x, <<>>)
  ELSE LET inner == Nested(SubSeq(stages, 1, Len(stages) - 1), x)
       IN  IF inner.kind = "raise" THEN inner
           ELSE StageProject(stages[Len(stages)], inner.arr)

\* The project methods one call of a stage enters.
StageCalls(stage) ==
  IF stage.kind = "fixed" THEN <<"Fixed", stage.action_space.name>> ELSE <<stage.name>>

RECURSIVE AllStageCalls(_)
AllStageCalls(stages) ==
  IF stages = <<>> THEN <<>> ELSE StageCalls(Head(stages)) \o AllStageCalls(Tail(stages))

\* C8: SequentialActionSpace([A1..Ak]).project(x) is
\* Ak.project(...A1.project(x)...), every stage entered once and in list
\* order, and its spec() is A1.spec(); for two stages it is
\* B.project(A.project(x)).
C8_SequentialComposes ==
  (sys = "action" /\ pc = "projected" /\ actionSpace.kind = "sequential") =>
    LET stages == actionSpace.action_spaces
        nested == Nested(stages, projectArg)
    IN  /\ ret.kind = nested.kind
        /\ ret.arr = nested.arr
        /\ ret.kind = "value" => ret.calls = AllStageCalls(stages)
        /\ SequentialSpec(actionSpace) = StageSpec(stages[1])
        /\ (Len(stages) = 2 /\ StageProject(stages[1], projectArg).kind = "value") =>
             LET b == StageProject(stages[2], StageProject(stages[1], projectArg).arr)
             IN  ret.kind = b.kind /\ ret.arr = b.arr

C8_Witness ==
  /\ sys = "action" /\ pc = "projected"
  /\ actionSpace = SequentialActionSpace(<<StageA, StageB>>)
  /\ projectArg = <<Num(-150)>>
  /\ ret.kind = "value"
  /\ ret.arr = <<Garbage, Num(-100), Num(0)>>
  /\ ret.calls = <<"a", "b">>

\* C9: FixedActionSpace.project ignores its argument: whatever the action,
\* and however many project calls came before, it returns
\* inner.project(fixed_value).
C9_FixedIgnoresArgument ==
  (sys = "action" /\ pc \in {"projected", "reprojected"} /\ actionSpace.kind = "fixed") =>
    LET inner == DeslicerProject(actionSpace.action_space, actionSpace.fixed_value)
    IN  /\ ret.kind = inner.kind
        /\ ret.arr = inner.arr
        /\ \A x \in Actions :
             /\ StageProject(actionSpace, x).kind = inner.kind
             /\ StageProject(actionSpace, x).arr = inner.arr

C9_Witness ==
  /\ sys = "action" /\ pc = "reprojected" /\ actionSpace.kind = "fixed"
  /\ actionSpace.fixed_value = <<Num(50)>>
  /\ actionSpace.action_space.mask = <<FALSE, TRUE>>
  /\ actionSpace.action_space.dtype = "float"
  /\ projectArg = <<Num(-150), NaN>>
  /\ ret.kind = "value"
  /\ ret.arr = <<actionSpace.action_space.default, Num(50)>>

\* C10: when constrained_action_spec returns, the result has the base's
\* shape, dtype and name, every component's minimum is max(base minimum,
\* given minimum) and its maximum is min(base maximum, given maximum), so
\* the returned bounds lie within the base bounds.
C10_ConstrainedBounds ==
  (sys = "constrain" /\ pc = "constrained" /\ ret.kind = "value") =>
    /\ ret.spec.shape = base.shape
    /\ ret.spec.dtype = base.dtype
    /\ ret.spec.name = base.name
    /\ \A i \in 1 .. base.shape :
         /\ Component(ret.spec.minimum, i)
              = Max2(Component(base.minimum, i), Component(minimum, i))
         /\ Component(ret.spec.maximum, i)
              = Min2(Component(base.maximum, i), Component(maximum, i))
         /\ Component(ret.spec.minimum, i) >= Component(base.minimum, i)
         /\ Component(ret.spec.maximum, i) <= Component(base.maximum, i)

\* Bound b has a value for component i.
HasComponent(b, i) == b.scalar \/ i <= Len(b.vals)

\* The caller's bounds are contradictory: the given minimum exceeds the
\* given maximum in some component, or (the shapes fitting the base) the
\* larger of the minimums exceeds the smaller of the maximums.
Contradictory ==
  \/ \E i \in 1 .. MaxDim + 1 :
       /\ HasComponent(minimum, i) /\ HasComponent(maximum, i)
       /\ Component(minimum, i) > Component(maximum, i)
  \/ /\ SameShape(minimum, base.minimum) /\ SameShape(maximum, base.maximum)
     /\ \E i \in 1 .. base.shape :
          Max2(Component(base.minimum, i), Component(minimum, i))
            > Min2(Component(base.maximum, i), Component(maximum, i))

\* C11: for every bounded base spec, of an integer dtype too, and every
\* contradictory pair of given bounds, constrained_action_spec raises
\* instead of returning a spec.
C11_ContradictoryRaises ==
  (sys = "constrain" /\ pc = "constrained" /\ Contradictory) => ret.kind = "raise"

(***************************************************************************)
(* Claims about single reward preprocessors.                               *)
(***************************************************************************)
\* obs0 or obs1 of the L2Reward is absent from mapping m.
KeyAbsent(m) ==
  preprocessor.obs0 \notin DOMAIN m \/ preprocessor.obs1 \notin DOMAIN m

\* C12 (as stated): L2Reward checks its keys lazily: with obs0 or obs1
\* absent from the observation spec setup still completes, and the
\* missing-key failure is raised only at process time, when the key is
\* absent from the timestep's observation.
C12_L2LazyKeyCheck ==
  /\ (sys = "pre" /\ preprocessor.kind = "l2" /\ pc = "setup"
        /\ KeyAbsent(last_input_spec.observation_spec)) =>
       last_output_spec.kind = "value"
  /\ (sys = "pre" /\ preprocessor.kind = "l2" /\ pc = "processed"
        /\ KeyAbsent(timestep.observation)) =>
       (ret.kind = "raise" /\ ret.error = "KeyError")

\* C12 (amended): L2Reward checks its keys at setup too: setup fails with a
\* missing-key failure exactly when obs0 or obs1 is absent from the
\* observation spec (a first setup that fails leaves the output dtype
\* unset), and otherwise declares the promotion of the two element types as
\* the reward dtype; at process time the missing-key failure is raised when
\* obs0 or obs1 is absent from the timestep's observation.
C12_L2EagerKeyCheck ==
  /\ (sys = "pre" /\ preprocessor.kind = "l2" /\ pc = "setup") =>
       IF KeyAbsent(last_input_spec.observation_spec)
       THEN /\ last_output_spec.kind = "raise"
            /\ last_output_spec.error = "KeyError"
            /\ setups = 1 => preprocessor = configured
       ELSE LET promoted ==
                  PromoteTypes(last_input_spec.observation_spec[preprocessor.obs0],
                               last_input_spec.observation_spec[preprocessor.obs1])
            IN  /\ last_output_spec.kind = "value"
                /\ last_output_spec.spec.reward_dtype = promoted
                /\ last_output_spec.spec.observation_spec
                     = last_input_spec.observation_spec
                /\ preprocessor.output_type = promoted
  /\ (sys = "pre" /\ preprocessor.kind = "l2" /\ pc = "processed"
        /\ KeyAbsent(timestep.observation)) =>
       (ret.kind = "raise" /\ ret.error = "KeyError")

C12_Witness ==
  /\ sys = "pre" /\ preprocessor.kind = "l2" /\ pc = "setup" /\ setups = 1
  /\ preprocessor.obs0 = "a" /\ preprocessor.obs1 = "b"
  /\ DOMAIN last_input_spec.observation_spec = {"a"}
  /\ last_output_spec.kind = "raise"
  /\ preprocessor.output_type = "none"

\* C13: after one or more setup calls, possibly with different reward
\* dtypes, ThresholdReward.process emits the configured hi cast to the
\* reward dtype of the most recent setup when the incoming reward is >=
\* threshold, and the configured lo cast to that dtype otherwise.
C13_ThresholdEmitsConfigured ==
  (sys = "pre" /\ preprocessor.kind = "threshold" /\ pc = "processed"
     /\ setups >= 1) =>
    /\ ret.kind = "value"
    /\ ret.ts.reward =
         CastRewardToType(IF timestep.reward.vals[1] >= configured.threshold
                          THEN configured.hi ELSE configured.lo,
                          last_input_spec.reward_dtype)

(***************************************************************************)
(* Claims about prefix_slicer.                                             *)
(***************************************************************************)
\* The number of tab-separated names in a string: its tabs plus one.
NameCount(chars) == Cardinality({i \in DOMAIN chars : chars[i] = Tab}) + 1

\* The spec has no elements.
ZeroElements(spec) == \E i \in DOMAIN spec.shape : spec.shape[i] = 0

\* C14: prefix_slicer on a spec with zero elements returns an identity
\* action space without raising, whatever the name; on a non-empty 1-d
\* spec it raises ValueError whenever the number of tab-separated names in
\* the name differs from the spec's length, and also when the spec is a
\* DiscreteArray or is neither an Array nor a BoundedArray.
C14_PrefixSlicerErrors ==
  (sys = "slicer" /\ pc = "sliced") =>
    /\ ZeroElements(slicedSpec) =>
         (ret.kind = "value" /\ ret.space.kind = "identity")
    /\ (Len(slicedSpec.shape) = 1 /\ slicedSpec.shape[1] >= 1
          /\ ~slicedSpec.name.none) =>
         /\ NameCount(slicedSpec.name.chars) # slicedSpec.shape[1] =>
              (ret.kind = "raise" /\ ret.error = "ValueError")
         /\ slicedSpec.kind \in {"DiscreteArray", "Other"} =>
              (ret.kind = "raise" /\ ret.error = "ValueError")

C14_Witness ==
  /\ sys = "slicer" /\ pc = "sliced"
  /\ slicedSpec.kind = "BoundedArray" /\ slicedSpec.bounds = "array"
  /\ slicedSpec.shape = <<2>>
  /\ slicedSpec.name = StrName(<<"a", "b">>)
  /\ ret.kind = "raise" /\ ret.error = "ValueError"

====
